---- MODULE Spec2Model ----
(***************************************************************************)
(* Model of laserbeamsize.  Of image_tools.py: the discrete line walk      *)
(* (line), line sampling (values_along_line), rectangular cropping         *)
(* (crop_image_to_rect, crop_image_to_integration_rect), rotation          *)
(* (rotate_image) and the test image (create_test_image).  Of display.py:  *)
(* plot_image_and_fit and plot_image_montage.  The beam estimator is the   *)
(* state machine of the specification.                                     *)
(*                                                                         *)
(* Every function is pure.  A behaviour is one call: the initial state     *)
(* holds the inputs (pc = "call"), the single step of the called function  *)
(* stores what it returns (pc = "return").  The estimator takes one step   *)
(* for each pass over the image.                                           *)
(*                                                                         *)
(* Real-valued pixel coordinates are held as integer counts of half        *)
(* pixels, so that int() and round() are modelled by what they do to a     *)
(* fractional value.                                                       *)
(***************************************************************************)
EXTENDS Integers, Sequences, FiniteSets

VARIABLES pc, op, image, args, ret

vars == <<pc, op, image, args, ret>>

\* ------------------------------------------------------------------ bounds
\* line endpoints are drawn from -MaxCoord..MaxCoord
MaxCoord == 3
\* images have 1..MaxDim rows and 1..MaxDim columns
MaxDim == 3
\* crop rectangles reach at most MaxPad pixels beyond the image on each side
MaxPad == 3
\* beam diameters are 1..MaxDiameter pixels
MaxDiameter == 3
\* mask_diameters is 1..MaxMaskDiameters
MaxMaskDiameters == 3
\* sampled lines end at most MaxOut pixels beyond the image on each side
MaxOut == 1

\* ------------------------------------------------------------------ values
\* Python's None, and a defined value x
None == <<>>
Some(x) == <<x>>

\* nothing returned yet
NoRet == [kind |-> "none"]

\* the image of a call that takes none
NoImage == [v |-> 0, h |-> 0, data |-> <<>>, mask |-> {}]

Abs(x) == IF x < 0 THEN -x ELSE x
Max(a, b) == IF a > b THEN a ELSE b
Min(a, b) == IF a < b THEN a ELSE b

\* ------------------------------------------------------------------ images
\* A real coordinate is an integer count of half pixels; Px(n) is n whole pixels.
Px(n) == 2 * n

\* int(x) of a real x: truncation toward zero, in whole pixels
int(x) == IF x >= 0 THEN x \div 2 ELSE -((-x) \div 2)

\* the pixel positions (row, col) of a v by h array
Positions(v, h) == (0..(v - 1)) \X (0..(h - 1))

\* An image is a v by h array (image[y, x], row = y, col = x) with the set of its
\* masked positions, empty for a plain array.  Every pixel holds a value of its own,
\* different from the 0 of padding.
TestImage(v, h, mask) ==
    [v |-> v, h |-> h, data |-> [q \in Positions(v, h) |-> q[1] * h + q[2] + 1], mask |-> mask]

\* the images given to the cropping functions: plain, or with the first pixel masked
Images ==
    {TestImage(v, h, m) : v \in 1..MaxDim, h \in 1..MaxDim, m \in {{}, {<<0, 0>>}}}

\* the images given to values_along_line: plain, or with the central pixel masked
SampledImages ==
    UNION {{TestImage(v, h, m) : m \in {{}, {<<(v - 1) \div 2, (h - 1) \div 2>>}}} :
           <<v, h>> \in (1..MaxDim) \X (1..MaxDim)}

\* ------------------------------------------------------------------ line()
lineSteepNever(r0, c0, r1, c1) == FALSE

\* steep = abs(r1 - r0) > abs(c1 - c0)
lineSteep(r0, c0, r1, c1) == Abs(r1 - r0) > Abs(c1 - c0)

\* if steep: r0, c0 = c0, r0; r1, c1 = c1, r1
lineTranspose(steep, p) ==
    IF steep THEN [r0 |-> p.c0, c0 |-> p.r0, r1 |-> p.c1, c1 |-> p.r1] ELSE p

lineOrderColsOnly(p) ==
    IF p.c0 > p.c1 THEN [r0 |-> p.r0, c0 |-> p.c1, r1 |-> p.r1, c1 |-> p.c0] ELSE p

\* if c0 > c1: c0, c1 = c1, c0; r0, r1 = r1, r0
lineOrder(p) ==
    IF p.c0 > p.c1 THEN [r0 |-> p.r1, c0 |-> p.c1, r1 |-> p.r0, c1 |-> p.c0] ELSE p

linePointPlain(steep, r, c) == <<r, c>>

\* if steep: rr.append(c); cc.append(r)  else: rr.append(r); cc.append(c)
linePoint(steep, r, c) == IF steep THEN <<c, r>> ELSE <<r, c>>

lineStopShort(c1) == c1

\* range(c0, c1 + 1) stops before c1 + 1
lineStop(c1) == c1 + 1

\* for c in range(c0, c1 + 1): append; error -= dr; if error < 0: r += step; error += dc
RECURSIVE lineLoop(_, _, _, _, _, _, _, _)
lineLoop(c, stop, r, error, dr, dc, step, steep) ==
    IF c >= stop THEN <<>>
    ELSE LET e1 == error - dr
             r2 == IF e1 < 0 THEN r + step ELSE r
             e2 == IF e1 < 0 THEN e1 + dc ELSE e1
         IN  <<linePoint(steep, r, c)>> \o lineLoop(c + 1, stop, r2, e2, dr, dc, step, steep)

\* line(r0, c0, r1, c1): the endpoints are integers, which int() leaves as they are
line(r0, c0, r1, c1) ==
    LET steep == lineSteep(r0, c0, r1, c1)
        p     == lineOrder(lineTranspose(steep, [r0 |-> r0, c0 |-> c0, r1 |-> r1, c1 |-> c1]))
        dr    == Abs(p.r1 - p.r0)
        dc    == p.c1 - p.c0
        error == dc \div 2
        step  == IF p.r0 < p.r1 THEN 1 ELSE -1
        pts   == lineLoop(p.c0, lineStop(p.c1), p.r0, error, dr, dc, step, steep)
    IN  [rr |-> [i \in 1..Len(pts) |-> pts[i][1]],
         cc |-> [i \in 1..Len(pts) |-> pts[i][2]]]

\* ------------------------------------------------------------------ one call of line()
Coords == (-MaxCoord)..MaxCoord

InitLine ==
    /\ pc = "call"
    /\ op = "line"
    /\ image = NoImage
    /\ args \in [r0 : Coords, c0 : Coords, r1 : Coords, c1 : Coords]
    /\ ret = NoRet

CallLine ==
    /\ pc = "call"
    /\ op = "line"
    /\ pc' = "return"
    /\ LET l == line(args.r0, args.c0, args.r1, args.c1)
       IN  ret' = [kind |-> "line", rr |-> l.rr, cc |-> l.cc]
    /\ UNCHANGED <<op, image, args>>

NextLine == CallLine

SpecLine == InitLine /\ [][NextLine]_vars

\* ------------------------------------------------------------------ crop_image_to_rect()
\* the smallest height and width of a crop
MinCrop == 3

\* return None, None, None
Sentinel == [kind |-> "sentinel"]

cropTooSmallBoth(crop_height, crop_width) == crop_height < MinCrop /\ crop_width < MinCrop

\* if crop_height < 3 or crop_width < 3
cropTooSmall(crop_height, crop_width) == crop_height < MinCrop \/ crop_width < MinCrop

cropNoOverlapStrict(lo_valid, hi_valid) == lo_valid > hi_valid

\* xmin_valid >= xmax_valid, ymin_valid >= ymax_valid
cropNoOverlap(lo_valid, hi_valid) == lo_valid >= hi_valid

cropPadOriginZero(lo_req) == 0

\* pad_ymin = max(0, -ymin_req), pad_xmin = max(0, -xmin_req)
cropPadOrigin(lo_req) == Max(0, -lo_req)

cropSliceFromOrigin(img, ymin_valid, ymax_valid, xmin_valid, xmax_valid) ==
    LET sv == ymax_valid - ymin_valid
        sh == xmax_valid - xmin_valid
    IN  [v    |-> sv,
         h    |-> sh,
         data |-> [q \in Positions(sv, sh) |-> img.data[q]],
         mask |-> {q \in Positions(sv, sh) : q \in img.mask}]

\* cropped = image[ymin_valid:ymax_valid, xmin_valid:xmax_valid]: a view of the image
\* that keeps the mask of a masked array
cropSlice(img, ymin_valid, ymax_valid, xmin_valid, xmax_valid) ==
    LET sv == ymax_valid - ymin_valid
        sh == xmax_valid - xmin_valid
    IN  [v    |-> sv,
         h    |-> sh,
         data |-> [q \in Positions(sv, sh) |-> img.data[<<q[1] + ymin_valid, q[2] + xmin_valid>>]],
         mask |-> {q \in Positions(sv, sh) : <<q[1] + ymin_valid, q[2] + xmin_valid>> \in img.mask}]

\* padded = np.zeros(...); padded[pad_ymin:pad_ymax, pad_xmin:pad_xmax] = cropped
\* (the values of cropped are copied, its mask is not); mask[:, :] = True;
\* mask[pad_ymin:pad_ymax, pad_xmin:pad_xmax] = False; ma.masked_array(padded, mask=mask)
cropPadded(cropped, crop_height, crop_width, pad_ymin, pad_xmin) ==
    LET pad_ymax == pad_ymin + cropped.v
        pad_xmax == pad_xmin + cropped.h
        inside(q) == /\ pad_ymin <= q[1] /\ q[1] < pad_ymax
                     /\ pad_xmin <= q[2] /\ q[2] < pad_xmax
    IN  [v    |-> crop_height,
         h    |-> crop_width,
         data |-> [q \in Positions(crop_height, crop_width) |->
                     IF inside(q) THEN cropped.data[<<q[1] - pad_ymin, q[2] - pad_xmin>>] ELSE 0],
         mask |-> {q \in Positions(crop_height, crop_width) : ~inside(q)}]

\* crop_image_to_rect(image, xc_px, yc_px, xmin, xmax, ymin, ymax)
crop_image_to_rect(img, xc_px, yc_px, xmin, xmax, ymin, ymax) ==
    LET v == img.v
        h == img.h
        xmin_req == int(xmin)
        xmax_req == int(xmax)
        ymin_req == int(ymin)
        ymax_req == int(ymax)
        crop_height == ymax_req - ymin_req
        crop_width  == xmax_req - xmin_req
        xmin_valid == Max(0, xmin_req)
        xmax_valid == Min(h, xmax_req)
        ymin_valid == Max(0, ymin_req)
        ymax_valid == Min(v, ymax_req)
        cropped == cropSlice(img, ymin_valid, ymax_valid, xmin_valid, xmax_valid)
        new_xc == xc_px - Px(xmin_req)
        new_yc == yc_px - Px(ymin_req)
    IN  IF cropTooSmall(crop_height, crop_width) THEN Sentinel
        ELSE IF cropNoOverlap(xmin_valid, xmax_valid) \/ cropNoOverlap(ymin_valid, ymax_valid)
        THEN Sentinel
        ELSE IF xmin_req < 0 \/ xmax_req > h \/ ymin_req < 0 \/ ymax_req > v
        THEN [kind |-> "crop", alias |-> "new", xc |-> new_xc, yc |-> new_yc,
              img |-> cropPadded(cropped, crop_height, crop_width,
                                 cropPadOrigin(ymin_req), cropPadOrigin(xmin_req))]
        ELSE [kind |-> "crop", alias |-> "view", xc |-> new_xc, yc |-> new_yc,
              img |-> cropped]

\* ------------------------------------------------------------------ one call of crop_image_to_rect()
\* the bounds of a rectangle along an axis of n pixels, in half pixels
CropBounds(n) == Px(-MaxPad)..Px(n + MaxPad)

\* the beam center (xc_px, yc_px), in half pixels: (1.5, 1)
Centers == {<<3, 2>>}

InitCrop ==
    /\ pc = "call"
    /\ op = "crop_image_to_rect"
    /\ image \in Images
    /\ \E c \in Centers :
          \E xmin, xmax \in CropBounds(image.h) :
             \E ymin, ymax \in CropBounds(image.v) :
                /\ xmin <= xmax
                /\ ymin <= ymax
                /\ args = [xc_px |-> c[1], yc_px |-> c[2],
                           xmin |-> xmin, xmax |-> xmax, ymin |-> ymin, ymax |-> ymax]
    /\ ret = NoRet

CallCropRect ==
    /\ pc = "call"
    /\ op = "crop_image_to_rect"
    /\ pc' = "return"
    /\ ret' = crop_image_to_rect(image, args.xc_px, args.yc_px,
                                 args.xmin, args.xmax, args.ymin, args.ymax)
    /\ UNCHANGED <<op, image, args>>

NextCrop == CallCropRect

SpecCrop == InitCrop /\ [][NextCrop]_vars

\* ------------------------------------------------------------------ crop_image_to_integration_rect()
\* sin and cos of an angle of k quarter turns
Sin(k) == <<0, 1, 0, -1>>[(k % 4) + 1]
Cos(k) == <<1, 0, -1, 0>>[(k % 4) + 1]

\* rotate_points(x, y, x0, y0, phi) for one point, phi in quarter turns
rotate_points(x, y, x0, y0, phi) ==
    LET xp == x - x0
        yp == y - y0
        sn == Sin(-phi)
        cs == Cos(-phi)
    IN  <<xp * cs - yp * sn + x0, xp * sn + yp * cs + y0>>

\* The angle phi is a count of quarter turns, -1..3.  A floating-point value is the
\* pair <<a, e>> of its exact part a, in half pixels, and its rounding error e, in
\* units of 2^-70 pixel.  np.sin and np.cos of a multiple of pi/2 are not exact:
\* cos(pi/2) = cos(-pi/2) = 6.1e-17, sin(-pi) = -1.2e-16, cos(-3pi/2) = -1.8e-16.
\* npSin(phi) is np.sin(-phi) and npCos(phi) is np.cos(-phi).
npSin(phi) == << <<2, 0>>, <<0, 0>>, <<-2, 0>>, <<0, -144581>>, <<2, 0>> >>[phi + 2]
npCos(phi) == << <<0, 72290>>, <<2, 0>>, <<0, 72290>>, <<-2, 0>>, <<0, -216871>> >>[phi + 2]

Sign(x) == IF x > 0 THEN 1 ELSE IF x < 0 THEN -1 ELSE 0

\* the greatest power of two that is at most n, for n >= 1
RECURSIVE Pow2Floor(_)
Pow2Floor(n) == IF n < 2 THEN 1 ELSE 2 * Pow2Floor(n \div 2)

\* the double nearest to a/2 + e * 2^-70 (round to nearest, ties to even): the error
\* becomes a multiple of the spacing of the doubles around a/2, which is 2^-52 times
\* the power of two below |a/2|, and half of that just below a power of two
fl(a, e) ==
    IF e = 0 \/ a = 0 THEN <<a, e>>
    ELSE LET p    == Pow2Floor(Abs(a))
             full == p * 131072
             ulp  == IF Abs(a) = p /\ Sign(e) # Sign(a) THEN full \div 2 ELSE full
             q    == Abs(e) \div ulp
             r    == Abs(e) % ulp
             up   == 2 * r > ulp \/ (2 * r = ulp /\ q % 2 = 1)
         IN  <<a, Sign(e) * (IF up THEN q + 1 ELSE q) * ulp>>

\* the product of the exact t (half pixels) and the sine or cosine c
flMul(t, c) == <<t * (c[1] \div 2), (t * c[2]) \div 2>>

flAdd(x, y) == fl(x[1] + y[1], x[2] + y[2])
flNeg(x) == <<-x[1], -x[2]>>
flExact(a) == <<a, 0>>

\* int(x) of a floating-point x: a whole number of pixels with an error toward zero
\* truncates to the pixel before it
flInt(x) ==
    IF x[1] % 2 # 0 \/ x[2] = 0 \/ x[1] = 0 \/ Sign(x[2]) = Sign(x[1])
    THEN int(x[1])
    ELSE int(x[1]) - Sign(x[1])

\* rotate_points(x, y, x0, y0, phi) as computed in double precision
rotate_points_float(x, y, x0, y0, phi) ==
    LET xp == x - x0
        yp == y - y0
        s  == npSin(phi)
        c  == npCos(phi)
        xf == flAdd(flMul(xp, c), flNeg(flMul(yp, s)))
        yf == flAdd(flMul(xp, s), flMul(yp, c))
    IN  <<flAdd(xf, flExact(x0)), flAdd(yf, flExact(y0))>>

\* rotated_rect_arrays(xc_px, yc_px, d_major, d_minor, phi): the five corners
rotated_rect_arrays(xc_px, yc_px, d_major, d_minor, phi) ==
    LET rx == d_major \div 2
        ry == d_minor \div 2
        x  == <<xc_px - rx, xc_px - rx, xc_px + rx, xc_px + rx, xc_px - rx>>
        y  == <<yc_px - ry, yc_px + ry, yc_px + ry, yc_px - ry, yc_px - ry>>
    IN  [i \in 1..5 |-> rotate_points_float(x[i], y[i], xc_px, yc_px, phi)]

\* x <= y for floating-point values: the error is far below half a pixel
flLeq(x, y) == x[1] < y[1] \/ (x[1] = y[1] /\ x[2] <= y[2])

SeqMin(f, k) ==
    CHOOSE m \in {f[i][k] : i \in DOMAIN f} : \A i \in DOMAIN f : flLeq(m, f[i][k])
SeqMax(f, k) ==
    CHOOSE m \in {f[i][k] : i \in DOMAIN f} : \A i \in DOMAIN f : flLeq(f[i][k], m)

\* an exception leaves the function
Raise(exc) == [kind |-> "raise", exc |-> exc]

integrationUndefinedMajor(d_major, d_minor) == d_major = None

\* if d_minor is None
integrationUndefined(d_major, d_minor) == d_minor = None

\* crop_image_to_integration_rect(image, xc_px, yc_px, d_major, d_minor, phi, mask_diameters):
\* diameters in whole pixels, phi in quarter turns; mask_diameters * None and
\* np.sin(-None) raise TypeError.  crop_image_to_rect() reads each bound through
\* int() only, so the floating-point bound is passed on as the pixel int() gives.
crop_image_to_integration_rect(img, xc_px, yc_px, d_major, d_minor, phi, mask_diameters) ==
    IF integrationUndefined(d_major, d_minor)
    THEN [kind |-> "crop", alias |-> "self", xc |-> xc_px, yc |-> yc_px, img |-> img]
    ELSE IF d_major = None \/ d_minor = None \/ phi = None
    THEN Raise("TypeError")
    ELSE LET rect_major == mask_diameters * Px(d_major[1])
             rect_minor == mask_diameters * Px(d_minor[1])
             p == rotated_rect_arrays(xc_px, yc_px, rect_major, rect_minor, phi[1])
         IN  crop_image_to_rect(img, xc_px, yc_px,
                                Px(flInt(SeqMin(p, 1))), Px(flInt(SeqMax(p, 1))),
                                Px(flInt(SeqMin(p, 2))), Px(flInt(SeqMax(p, 2))))

\* ------------------------------------------------------------------ one call of crop_image_to_integration_rect()
Optional(S) == {None} \cup {Some(x) : x \in S}

\* beam centers (1.5, 1.0) and (2.0, 1.5), in half pixels
IntegrationCenters == Centers \cup {<<4, 3>>}

\* phi = 0, pi/2 and -pi/2, in quarter turns
IntegrationAngles == {0, 1, -1}

InitIntegration ==
    /\ pc = "call"
    /\ op = "crop_image_to_integration_rect"
    /\ image \in Images
    /\ \E c \in IntegrationCenters :
          args \in [xc_px : {c[1]}, yc_px : {c[2]},
                    d_major : Optional(1..MaxDiameter),
                    d_minor : Optional(1..MaxDiameter),
                    phi : Optional(IntegrationAngles),
                    mask_diameters : 1..MaxMaskDiameters]
    /\ ret = NoRet

CallCropIntegration ==
    /\ pc = "call"
    /\ op = "crop_image_to_integration_rect"
    /\ pc' = "return"
    /\ ret' = crop_image_to_integration_rect(image, args.xc_px, args.yc_px, args.d_major,
                                             args.d_minor, args.phi, args.mask_diameters)
    /\ UNCHANGED <<op, image, args>>

NextIntegration == CallCropIntegration

SpecIntegration == InitIntegration /\ [][NextIntegration]_vars

\* ------------------------------------------------------------------ values_along_line()
\* int(round(x)) of a real x: the nearest whole pixel, a tie going to the even one
round(x) ==
    LET lo == x \div 2
    IN  IF x % 2 = 0 THEN lo
        ELSE IF lo % 2 = 0 THEN lo ELSE lo + 1

\* a[keep] for a boolean array keep: the elements of a where keep holds, in order
RECURSIVE BoolIndex(_, _)
BoolIndex(a, keep) ==
    IF Len(a) = 0 THEN <<>>
    ELSE (IF Head(keep) THEN <<Head(a)>> ELSE <<>>) \o BoolIndex(Tail(a), Tail(keep))

\* d_full: the distance of point i (from 1) of n from the center of the line, as the
\* fraction <<num, den>> of total_distance.  np.linspace(0, 1, n) is 0, 1/(n-1), ..., 1,
\* and is 0 alone for n = 1; the distances are all 0 when total_distance is 0.
distanceFraction(i, n, positive) ==
    IF ~positive THEN <<0, 1>>
    ELSE IF n = 1 THEN <<-1, 2>>
    ELSE <<2 * (i - 1) - (n - 1), 2 * (n - 1)>>

validBoundsUpperOnly(r, c, height, width) == r < height /\ c < width

\* (rr_full >= 0) & (rr_full < height) & (cc_full >= 0) & (cc_full < width)
validBounds(r, c, height, width) == r >= 0 /\ r < height /\ c >= 0 /\ c < width

\* an index array is within the bounds of an axis of n elements: -n <= i < n
IndexOk(idx, n) == \A i \in DOMAIN idx : -n <= idx[i] /\ idx[i] < n

is_maskedNever(zmask) == FALSE

\* np.ma.is_masked(z): some element of z is masked
is_masked(zmask) == \E i \in DOMAIN zmask : zmask[i]

\* values_along_line(image, x0, y0, x1, y1)
values_along_line(img, x0, y0, x1, y1) ==
    LET height == img.v
        width  == img.h
        full   == line(round(y0), round(x0), round(y1), round(x1))
        n      == Len(full.rr)
        positive == x1 # x0 \/ y1 # y0
        d_full == [i \in 1..n |-> distanceFraction(i, n, positive)]
        valid_bounds == [i \in 1..n |-> validBounds(full.rr[i], full.cc[i], height, width)]
        rr == BoolIndex(full.rr, valid_bounds)
        cc == BoolIndex(full.cc, valid_bounds)
        d  == BoolIndex(d_full, valid_bounds)
        \* image[rr, cc]: a negative index counts from the end of its axis
        at(i)  == <<rr[i] % height, cc[i] % width>>
        z      == [i \in 1..Len(rr) |-> img.data[at(i)]]
        zmask  == [i \in 1..Len(rr) |-> at(i) \in img.mask]
        valid  == [i \in 1..Len(rr) |-> ~zmask[i]]
    IN  IF ~(IndexOk(rr, height) /\ IndexOk(cc, width)) THEN Raise("IndexError")
        ELSE IF is_masked(zmask)
        THEN [kind |-> "values", x |-> BoolIndex(cc, valid), y |-> BoolIndex(rr, valid),
              z |-> BoolIndex(z, valid), s |-> BoolIndex(d, valid)]
        ELSE [kind |-> "values", x |-> cc, y |-> rr, z |-> z, s |-> d]

\* ------------------------------------------------------------------ one call of values_along_line()
\* the ends of a sampled line along an axis of n pixels, in half pixels
LineEnds(n) == Px(-MaxOut)..Px(n - 1 + MaxOut)

InitValues ==
    /\ pc = "call"
    /\ op = "values_along_line"
    /\ image \in SampledImages
    /\ args \in [x0 : LineEnds(image.h), y0 : LineEnds(image.v),
                  x1 : LineEnds(image.h), y1 : LineEnds(image.v)]
    /\ ret = NoRet

CallValuesAlongLine ==
    /\ pc = "call"
    /\ op = "values_along_line"
    /\ pc' = "return"
    /\ ret' = values_along_line(image, args.x0, args.y0, args.x1, args.y1)
    /\ UNCHANGED <<op, image, args>>

NextValues == CallValuesAlongLine

SpecValues == InitValues /\ [][NextValues]_vars

\* ------------------------------------------------------------------ claims about line()
LineReturned == pc = "return" /\ op = "line"

\* the set of (row, col) points of a result of line()
PointSet(l) == {<<l.rr[i], l.cc[i]>> : i \in 1..Len(l.rr)}

\* C1: line(r0, c0, r1, c1) returns exactly max(|r1 - r0|, |c1 - c0|) + 1 points:
\* rr and cc both have that length, also when the two endpoints coincide.
C1_LineLength ==
    LineReturned =>
        LET n == Max(Abs(args.r1 - args.r0), Abs(args.c1 - args.c0)) + 1
        IN  Len(ret.rr) = n /\ Len(ret.cc) = n

\* a steep line given from its far end, and a single point
C1_Witness ==
    /\ LineReturned
    /\ args.r0 - args.r1 = 3
    /\ args.c1 - args.c0 = 2
    /\ Len(ret.rr) = 4

\* C2: the points of line() hold no (row, col) pair twice and leave no gap: consecutive
\* points differ by exactly 1 along the axis of greatest extent and by at most 1
\* along the other axis.
C2_NoDuplicateNoGap ==
    LineReturned =>
        LET dr == Abs(args.r1 - args.r0)
            dc == Abs(args.c1 - args.c0)
            n  == Len(ret.rr)
        IN  /\ Len(ret.cc) = n
            /\ \A i, j \in 1..n :
                   (ret.rr[i] = ret.rr[j] /\ ret.cc[i] = ret.cc[j]) => i = j
            /\ \A i \in 1..(n - 1) :
                   LET sr == Abs(ret.rr[i + 1] - ret.rr[i])
                       sc == Abs(ret.cc[i + 1] - ret.cc[i])
                   IN  /\ dr >= dc => (sr = 1 /\ sc <= 1)
                       /\ dc >= dr => (sc = 1 /\ sr <= 1)

\* a steep line that is not a diagonal: the walk is along the rows
C2_Witness ==
    /\ LineReturned
    /\ args.r1 - args.r0 = 3
    /\ args.c0 - args.c1 = 1
    /\ Len(ret.rr) > 2

\* C3: line() is reversal-symmetric: the call with the two endpoints exchanged
\* produces the same set of (row, col) points.
C3_ReversalSymmetric ==
    LineReturned =>
        PointSet(ret) = PointSet(line(args.r1, args.c1, args.r0, args.c0))

\* a shallow, non-diagonal line given right to left: the endpoints are exchanged inside
C3_Witness ==
    /\ LineReturned
    /\ args.c0 - args.c1 = 3
    /\ args.r1 - args.r0 = 1
    /\ Cardinality(PointSet(ret)) = 4

\* ------------------------------------------------------------------ claims about crop_image_to_rect()
CropReturned == pc = "return" /\ op = "crop_image_to_rect"

\* the source position of the pixel (r, c) of the crop
SourceOf(q) == <<q[1] + int(args.ymin), q[2] + int(args.xmin)>>

\* the rectangle, its bounds converted to integers, is at least 3x3, overlaps the
\* image and extends past at least one edge of it
Straddles ==
    /\ int(args.xmax) - int(args.xmin) >= MinCrop
    /\ int(args.ymax) - int(args.ymin) >= MinCrop
    /\ int(args.xmin) < image.h /\ int(args.xmax) > 0
    /\ int(args.ymin) < image.v /\ int(args.ymax) > 0
    /\ \/ int(args.xmin) < 0 \/ int(args.xmax) > image.h
       \/ int(args.ymin) < 0 \/ int(args.ymax) > image.v

C5_Original ==
    (CropReturned /\ (\/ args.xmax - args.xmin < Px(MinCrop)
                      \/ args.ymax - args.ymin < Px(MinCrop))) =>
        ret = Sentinel

\* C5, amended: the sentinel is returned, and nothing is raised, whenever the width
\* int(xmax) - int(xmin) or the height int(ymax) - int(ymin) of the rectangle after the
\* integer conversion of its bounds is smaller than 3 pixels, for any real-valued bounds.
C5_SentinelWhenConvertedTooSmall ==
    (CropReturned /\ (\/ int(args.xmax) - int(args.xmin) < MinCrop
                      \/ int(args.ymax) - int(args.ymin) < MinCrop)) =>
        ret = Sentinel

\* a rectangle over the image, high enough and too narrow, whose left bound is
\* negative and not a whole number
C5_Witness ==
    /\ CropReturned
    /\ args.xmin < 0
    /\ args.xmin % 2 = 1
    /\ int(args.xmax) - int(args.xmin) = MinCrop - 1
    /\ int(args.ymax) - int(args.ymin) >= MinCrop
    /\ int(args.ymin) = 0
    /\ ret = Sentinel

\* C6: the sentinel is returned whenever the rectangle has no overlap with the image:
\* it lies entirely left of, right of, above or below it, whatever its size.
C6_SentinelWhenNoOverlap ==
    (CropReturned /\ (\/ args.xmax <= 0
                      \/ args.xmin >= Px(image.h)
                      \/ args.ymax <= 0
                      \/ args.ymin >= Px(image.v))) =>
        ret = Sentinel

\* a rectangle of at least 3x3 that begins at the right edge of the image
C6_Witness ==
    /\ CropReturned
    /\ int(args.xmax) - int(args.xmin) >= MinCrop
    /\ int(args.ymax) - int(args.ymin) >= MinCrop
    /\ int(args.xmin) = image.h
    /\ int(args.ymin) = 0
    /\ ret = Sentinel

\* ------------------------------------------------------------------ claims about crop_image_to_integration_rect()
IntegrationReturned == pc = "return" /\ op = "crop_image_to_integration_rect"

\* C7: when d_minor is None, crop_image_to_integration_rect returns the input image
\* itself, unmodified, with the unchanged center (xc_px, yc_px), whatever d_major,
\* phi and mask_diameters are, and does not raise.
C7_UndefinedMinorReturnsImage ==
    (IntegrationReturned /\ args.d_minor = None) =>
        /\ ret.kind = "crop"
        /\ ret.alias = "self"
        /\ ret.img = image
        /\ ret.xc = args.xc_px
        /\ ret.yc = args.yc_px

\* d_minor is undefined while d_major is defined and phi is undefined
C7_Witness ==
    /\ IntegrationReturned
    /\ args.d_minor = None
    /\ args.d_major # None
    /\ args.phi = None
    /\ ret.kind = "crop"
    /\ ret.img = image

\* ------------------------------------------------------------------ claims about values_along_line()
ValuesReturned == pc = "return" /\ op = "values_along_line"

\* the pixels of the requested line, and those of them inside the image
RequestedPixels ==
    PointSet(line(round(args.y0), round(args.x0), round(args.y1), round(args.x1)))
PixelsInside == RequestedPixels \cap Positions(image.v, image.h)

\* C8: values_along_line never raises when the line lies partly or wholly outside the
\* image: it returns only samples whose pixel lies inside the image, and four empty
\* arrays when no pixel of the line is inside the image.
C8_OutsideLineDegrades ==
    ValuesReturned =>
        /\ ret.kind = "values"
        /\ \A i \in 1..Len(ret.x) : <<ret.y[i], ret.x[i]>> \in PixelsInside
        /\ PixelsInside = {} =>
              (Len(ret.x) = 0 /\ Len(ret.y) = 0 /\ Len(ret.z) = 0 /\ Len(ret.s) = 0)

\* a line that starts above and left of an unmasked image and ends in it
C8_Witness ==
    /\ ValuesReturned
    /\ image.mask = {}
    /\ round(args.x0) < 0
    /\ round(args.y0) < 0
    /\ round(args.x1) = 1
    /\ round(args.y1) = 1
    /\ ret.kind = "values"
    /\ Len(ret.x) = 2

\* C9: the four arrays returned by values_along_line have the same length, and for
\* every index i the pixel (y[i], x[i]) is inside the image, is not masked in the
\* input image, and z[i] is image[y[i], x[i]].
C9_ParallelUnmaskedSamples ==
    (ValuesReturned /\ ret.kind = "values") =>
        /\ Len(ret.y) = Len(ret.x)
        /\ Len(ret.z) = Len(ret.x)
        /\ Len(ret.s) = Len(ret.x)
        /\ \A i \in 1..Len(ret.x) :
              /\ <<ret.y[i], ret.x[i]>> \in Positions(image.v, image.h)
              /\ <<ret.y[i], ret.x[i]>> \notin image.mask
              /\ ret.z[i] = image.data[<<ret.y[i], ret.x[i]>>]

\* a line inside the image through a masked pixel that is not one of its ends
C9_Witness ==
    /\ ValuesReturned
    /\ image.mask \cap RequestedPixels # {}
    /\ <<round(args.y0), round(args.x0)>> \notin image.mask
    /\ <<round(args.y1), round(args.x1)>> \notin image.mask
    /\ RequestedPixels \subseteq Positions(image.v, image.h)
    /\ ret.kind = "values"
    /\ Len(ret.x) = 2

\* C10 as stated: the samples run from (x0, y0) to (x1, y1) for every direction of the
\* line: when the whole line is inside an unmasked image, the first sample is the pixel
\* nearest (x0, y0) at the signed distance -L/2 and the last sample is the pixel nearest
\* (x1, y1) at the signed distance +L/2, L the distance between the two ends.  Stated for
\* the lines whose two ends lie in different pixels, where the first sample and the last
\* are two samples.
C10_SamplesRunFromStartToEnd ==
    (/\ ValuesReturned
     /\ image.mask = {}
     /\ RequestedPixels \subseteq Positions(image.v, image.h)
     /\ <<round(args.y0), round(args.x0)>> # <<round(args.y1), round(args.x1)>>) =>
        /\ ret.kind = "values"
        /\ Len(ret.x) >= 1
        /\ LET n == Len(ret.x)
               L2 == (args.x1 - args.x0) * (args.x1 - args.x0)
                     + (args.y1 - args.y0) * (args.y1 - args.y0)
           IN  /\ ret.x[1] = round(args.x0) /\ ret.y[1] = round(args.y0)
               /\ ret.x[n] = round(args.x1) /\ ret.y[n] = round(args.y1)
               \* s = (num / den) * L is -L/2, +L/2
               /\ L2 > 0 => (2 * ret.s[1][1] = -ret.s[1][2] /\ 2 * ret.s[n][1] = ret.s[n][2])
               /\ L2 = 0 => (ret.s[1][1] = 0 /\ ret.s[n][1] = 0)

\* ------------------------------------------------------------------ rotate_image()
\* scipy.ndimage.rotate(original, np.degrees(phi), order=1) for a quarter-turn phi:
\* the counter-clockwise rotation, exact, on the reshaped array
rotate(img, phi) ==
    LET k  == phi % 4
        rv == IF k % 2 = 0 THEN img.v ELSE img.h
        rh == IF k % 2 = 0 THEN img.h ELSE img.v
        src(q) == IF k = 0 THEN q
                  ELSE IF k = 1 THEN <<q[2], img.h - 1 - q[1]>>
                  ELSE IF k = 2 THEN <<img.v - 1 - q[1], img.h - 1 - q[2]>>
                  ELSE <<img.v - 1 - q[2], q[1]>>
    IN  [v |-> rv, h |-> rh, data |-> [q \in Positions(rv, rh) |-> img.data[src(q)]], mask |-> {}]

\* the indices a[b:e] selects from an axis of length n, in order
sliceIndex(b, e, n) ==
    LET lo == IF b < 0 THEN Max(b + n, 0) ELSE Min(b, n)
        hi == IF e < 0 THEN Max(e + n, 0) ELSE Min(e, n)
    IN  [i \in 1..Max(hi - lo, 0) |-> lo + i - 1]

\* numpy broadcasts an axis of length from into one of length to
broadcast(from, to) == from = to \/ from = 1

\* the body of rotate_image after the two offsets voff and hoff are known
rotatePaste(original, rotated, voff, hoff) ==
    LET ov == original.v
        oh == original.h
        rv == rotated.v
        rh == rotated.h
        rv1 == Max(voff, 0)
        sv1 == Max(-voff, 0)
        vlen == Min(voff + ov, rv) - rv1
        rh1 == Max(hoff, 0)
        sh1 == Max(-hoff, 0)
        hlen == Min(hoff + oh, rh) - rh1
        srows == sliceIndex(sv1, sv1 + vlen, ov)
        scols == sliceIndex(sh1, sh1 + hlen, oh)
        rrows == sliceIndex(rv1, rv1 + vlen, rv)
        rcols == sliceIndex(rh1, rh1 + hlen, rh)
        pick(f, i) == IF Len(f) = 1 THEN f[1] ELSE f[i]
        val(q) == IF \E i \in DOMAIN srows, j \in DOMAIN scols : <<srows[i], scols[j]>> = q
                  THEN LET i == CHOOSE i \in DOMAIN srows : srows[i] = q[1]
                           j == CHOOSE j \in DOMAIN scols : scols[j] = q[2]
                       IN  rotated.data[<<pick(rrows, i), pick(rcols, j)>>]
                  ELSE 0
    IN  IF broadcast(Len(rrows), Len(srows)) /\ broadcast(Len(rcols), Len(scols))
        THEN [kind |-> "rotated", alias |-> "new",
              img |-> [v |-> ov, h |-> oh, data |-> [q \in Positions(ov, oh) |-> val(q)],
                       mask |-> {}]]
        ELSE Raise("ValueError")

\* rotate_image(original, x0, y0, phi), phi None or a count of quarter turns
rotate_image(original, x0, y0, phi) ==
    IF phi = None
    THEN [kind |-> "rotated", alias |-> "self", img |-> original]
    ELSE LET cy == original.v - 1
             cx == original.h - 1
             rotated == rotate(original, phi[1])
             ry == rotated.v - 1
             rx == rotated.h - 1
             new == rotate_points_float(x0, y0, cx, cy, phi[1])
             new_x0 == flAdd(new[1], flExact(rx - cx))
             new_y0 == flAdd(new[2], flExact(ry - cy))
             voff == flInt(flAdd(new_y0, flExact(-y0)))
             hoff == flInt(flAdd(new_x0, flExact(-x0)))
         IN  rotatePaste(original, rotated, voff, hoff)

\* ------------------------------------------------------------------ one call of rotate_image()
\* the arrays given to rotate_image: plain
PlainImages == {TestImage(v, h, {}) : v \in 1..MaxDim, h \in 1..MaxDim}

\* the center runs over the half pixels of the image and MaxOut pixels beyond it
InitRotate ==
    /\ pc = "call"
    /\ op = "rotate_image"
    /\ image \in PlainImages
    /\ args \in [x0 : LineEnds(image.h), y0 : LineEnds(image.v), phi : Optional(0..3)]
    /\ ret = NoRet

CallRotate ==
    /\ pc = "call"
    /\ op = "rotate_image"
    /\ pc' = "return"
    /\ ret' = rotate_image(image, args.x0, args.y0, args.phi)
    /\ UNCHANGED <<op, image, args>>

NextRotate == CallRotate

SpecRotate == InitRotate /\ [][NextRotate]_vars

\* ------------------------------------------------------------------ C11
RotateReturned == pc = "return" /\ op = "rotate_image"

\* no argument of the call is None
ArgsDefined ==
    CASE op = "rotate_image" -> args.phi # None
      [] op = "crop_image_to_integration_rect" ->
             args.d_major # None /\ args.d_minor # None /\ args.phi # None
      [] OTHER -> TRUE

\* C11: rotate_image, crop_image_to_rect and crop_image_to_integration_rect never
\* raise because a center or a rectangle coordinate lies outside the image: with
\* every argument defined, the call returns normally wherever the coordinates are.
C11_NoRaiseForOutsideCoordinates ==
    (/\ pc = "return"
     /\ op \in {"rotate_image", "crop_image_to_rect", "crop_image_to_integration_rect"}
     /\ ArgsDefined)
        => ret.kind # "raise"

\* ------------------------------------------------------------------ C12
\* the center of the call is a whole pixel of the image
CenterIsPixel ==
    /\ args.x0 % 2 = 0 /\ args.y0 % 2 = 0
    /\ <<int(args.y0), int(args.x0)>> \in Positions(image.v, image.h)

\* the pixel of the original that a rotation by phi about (x0, y0) brings to pixel q
RotatedFrom(q) ==
    LET p == rotate_points(Px(q[2]), Px(q[1]), args.x0, args.y0, -args.phi[1])
    IN  <<int(p[2]), int(p[1])>>

\* C12: rotate_image(original, x0, y0, phi) returns an array of the shape of original
\* in which the content of pixel (x0, y0) is again at pixel (x0, y0), and in which
\* every pixel that the rotation about (x0, y0) brings no pixel of original to is zero.
C12_RotationKeepsCenter ==
    (RotateReturned /\ args.phi # None /\ CenterIsPixel)
        => /\ ret.kind = "rotated"
           /\ ret.img.v = image.v /\ ret.img.h = image.h
           /\ LET c == <<int(args.y0), int(args.x0)>>
              IN  ret.img.data[c] = image.data[c]
           /\ \A q \in Positions(image.v, image.h) :
                  RotatedFrom(q) \notin Positions(image.v, image.h) => ret.img.data[q] = 0

\* ------------------------------------------------------------------ C13
\* C13: every cropping and rotation operation (crop_image_to_rect,
\* crop_image_to_integration_rect, rotate_image) that returns an array returns a newly
\* allocated one, never the caller's array itself and never a view of it.
C13_ReturnsNewArray ==
    (pc = "return" /\ ret.kind \in {"crop", "rotated"}) => ret.alias = "new"

\* ------------------------------------------------------------------ create_test_image()
\* an exception with its message
RaiseMsg(exc, msg) == [kind |-> "raise", exc |-> exc, msg |-> msg]

\* a Python number with its type
PyInt(n) == [type |-> "int", val |-> n]
PyFloat(n) == [type |-> "float", val |-> n]

\* if max_value < 0 or max_value >= 2**16
maxValueRejected(max_value) == max_value < 0 \/ max_value >= 65536

sizeRejectedNegative(n) == n.type # "int" \/ n.val < 0

\* if not isinstance(h, int) or h <= 0
sizeRejected(n) == n.type # "int" \/ n.val <= 0

\* if phi is not None and abs(phi) > 2.1 * np.pi, phi in quarter turns
phiRejected(phi) == phi # None /\ 10 * Abs(phi[1]) > 42

\* 1000 * np.exp(-n / 2), rounded
ExpHalf(n) ==
    IF n > 15 THEN 0
    ELSE <<1000, 607, 368, 223, 135, 82, 50, 30, 18, 11, 7, 4, 2, 2, 1, 1>>[n + 1]

\* the beam of every test image has d_major = d_minor = 4 and is centered on the
\* pixel (xc_px, yc_px) = (0, 0)
BeamCenter == <<0, 0>>

\* image0 = scale * np.exp(-2 * (x - xc_px)**2 / rx**2 - 2 * (y - yc_px)**2 / ry**2)
\* for rx = ry = 2, in thousandths
gaussian(v, h, scale) ==
    [v |-> v, h |-> h,
     data |-> [q \in Positions(v, h) |->
                  scale * ExpHalf((q[2] - BeamCenter[1]) * (q[2] - BeamCenter[1])
                                  + (q[1] - BeamCenter[2]) * (q[1] - BeamCenter[2]))],
     mask |-> {}]

\* One draw of the random noise of a pixel, in thousandths, for the level l in 0..2
\* that the pixel is given: np.random.poisson(noise) is a count, np.random.normal(noise,
\* sqrt(noise)) any real, np.random.uniform(0, noise) a real of [0, noise)
noiseDraw(ntype, noise, l) ==
    IF ntype = "poisson" THEN 1000 * noise * l
    ELSE IF ntype = "constant" THEN 1000 * noise
    ELSE IF ntype \in {"gaussian", "normal"} THEN 1000 * noise * (3 * l - 2)
    ELSE IF ntype \in {"flat", "uniform"} THEN 499 * noise * l
    ELSE 0

\* if noise > 0: the noise is added and the image is clipped
clipped(noise) == noise > 0

\* np.place(image1, image1 > max_value, max_value); np.place(image1, image1 < 0, 0)
clip(x, max_value) ==
    LET top == IF x > 1000 * max_value THEN 1000 * max_value ELSE x
    IN  IF top < 0 THEN 0 ELSE top

\* image1.astype(np.uint8 or np.uint16) of a value in thousandths, w the width in
\* bits.  A value outside the type is undefined in C: it wraps or it saturates.
astype(x, w, cast) ==
    LET t == IF x >= 0 THEN x \div 1000 ELSE -((-x) \div 1000)
        top == IF w = 8 THEN 255 ELSE 65535
    IN  IF t >= 0 /\ t <= top THEN t
        ELSE IF cast = "wrap" THEN t % (top + 1)
        ELSE IF t < 0 THEN 0 ELSE top

\* create_test_image(h, v, 0, 0, 4, 4, phi, noise, ntype, max_value)
\* with the random draw seed and the conversion cast of the run
create_test_image(h, v, phi, noise, ntype, max_value, seed, cast) ==
    IF maxValueRejected(max_value)
    THEN RaiseMsg("ValueError", "max_value must be positive and less than 65535")
    ELSE IF sizeRejected(h)
    THEN RaiseMsg("ValueError", "number of columns must be positive")
    ELSE IF sizeRejected(v)
    THEN RaiseMsg("ValueError", "number of rows must be positive")
    ELSE IF phiRejected(phi)
    THEN RaiseMsg("ValueError", "the angle phi should be in radians!")
    ELSE LET scale  == max_value - 3 * noise
             image0 == gaussian(v.val, h.val, scale)
             image1 == rotate_image(image0, Px(BeamCenter[1]), Px(BeamCenter[2]), phi)
             level(q) == (seed + q[1] + q[2]) % 3
             noisy(q) == IF clipped(noise)
                         THEN clip(image1.img.data[q] + noiseDraw(ntype, noise, level(q)),
                                   max_value)
                         ELSE image1.img.data[q]
             w == IF max_value < 256 THEN 8 ELSE 16
         IN  IF image1.kind = "raise"
             THEN RaiseMsg(image1.exc, "could not broadcast input array")
             ELSE [kind |-> "image",
                   dtype |-> IF w = 8 THEN "uint8" ELSE "uint16",
                   float |-> [q \in Positions(v.val, h.val) |-> noisy(q)],
                   img |-> [v |-> v.val, h |-> h.val,
                            data |-> [q \in Positions(v.val, h.val) |->
                                         astype(noisy(q), w, cast)],
                            mask |-> {}]]

\* ------------------------------------------------------------------ one call of create_test_image()
\* the sizes: whole numbers from -1 to MaxDim, and the float 2.0
Sizes == {PyInt(n) : n \in -1..MaxDim} \cup {PyFloat(2)}

\* the angles: none, the quarter turns of one revolution, and 5 quarter turns
\* (2.5 pi) either way
Angles == Optional({0, 1, 2, 3, 5, -5})

\* the noise: -MaxNoise..MaxNoise, and one that is more than a third of 255
MaxNoise == 1
Noises == (-MaxNoise..MaxNoise) \cup {100}

NoiseTypes == {"poisson", "constant", "gaussian", "uniform", "none"}

MaxValues == {-1, 0, 1, 255, 256, 65534, 65535, 65536}

InitTestImage ==
    /\ pc = "call"
    /\ op = "create_test_image"
    /\ image = NoImage
    /\ args \in [h : Sizes, v : Sizes, phi : Angles, noise : Noises, ntype : NoiseTypes,
                 max_value : MaxValues]
    /\ ret = NoRet

CallCreateTestImage ==
    /\ pc = "call"
    /\ op = "create_test_image"
    /\ pc' = "return"
    /\ \E seed \in 0..2, cast \in {"wrap", "saturate"} :
          ret' = create_test_image(args.h, args.v, args.phi, args.noise, args.ntype,
                                   args.max_value, seed, cast)
    /\ UNCHANGED <<op, image, args>>

NextTestImage == CallCreateTestImage

SpecTestImage == InitTestImage /\ [][NextTestImage]_vars

\* ------------------------------------------------------------------ C14
TestImageReturned == pc = "return" /\ op = "create_test_image"

\* the messages of the checks made before any image is built
SizeAndAngleMessages ==
    {"number of columns must be positive", "number of rows must be positive",
     "the angle phi should be in radians!"}

NotPositiveInteger(n) == n.type # "int" \/ n.val < 1

\* C14: create_test_image raises ValueError from its argument checks, before any image
\* is built, when h or v is not a positive integer or when phi is given and
\* |phi| > 2.1 pi; for a positive integer h and v and phi None or |phi| <= 2.1 pi the
\* checks of h, v and phi do not raise.
C14_SizeAndAngleChecks ==
    TestImageReturned =>
        IF NotPositiveInteger(args.h) \/ NotPositiveInteger(args.v)
           \/ (args.phi # None /\ 10 * Abs(args.phi[1]) > 42)
        THEN /\ ret.kind = "raise"
             /\ ret.exc = "ValueError"
             /\ ret.msg \in SizeAndAngleMessages
                               \cup {"max_value must be positive and less than 65535"}
        ELSE ~(ret.kind = "raise" /\ ret.msg \in SizeAndAngleMessages)

\* a call with good sizes and an angle of 2.5 pi has been refused for its angle
C14_Witness ==
    /\ TestImageReturned
    /\ ~NotPositiveInteger(args.h) /\ ~NotPositiveInteger(args.v)
    /\ args.phi = Some(5)
    /\ ret.kind = "raise"
    /\ ret.msg = "the angle phi should be in radians!"

\* ------------------------------------------------------------------ C15
\* C15: create_test_image accepts max_value only when it is positive and less than
\* 65535: it raises ValueError for every max_value <= 0 and every max_value >= 65535.
C15_MaxValueRange ==
    (TestImageReturned /\ (args.max_value <= 0 \/ args.max_value >= 65535))
        => (ret.kind = "raise" /\ ret.exc = "ValueError")

\* ------------------------------------------------------------------ C16
\* C16: for every accepted combination of parameters (max_value positive and less
\* than 65535), whatever the noise and its type, every pixel of the image lies in
\* 0..max_value, and the returned type (uint8 when max_value < 256, uint16 otherwise)
\* holds every pixel without wrap-around.
C16_PixelsInRange ==
    (TestImageReturned /\ ret.kind = "image" /\ args.max_value \in 1..65534)
        => /\ ret.dtype = (IF args.max_value < 256 THEN "uint8" ELSE "uint16")
           /\ \A q \in DOMAIN ret.float :
                 /\ ret.float[q] >= 0 /\ ret.float[q] <= 1000 * args.max_value
                 /\ ret.img.data[q] = ret.float[q] \div 1000
                 /\ ret.img.data[q] \in 0..args.max_value

\* ------------------------------------------------------------------ display.py
\* The estimates beam_size (analysis.py) can return, by the specification's data
\* model: both diameters and the angle defined with d_major >= d_minor, or, for a
\* failed fit, d_minor and phi undefined and d_major defined or not.  The center is in
\* half pixels, the diameters in whole pixels, phi in quarter turns.
beam_size ==
    {[xc |-> c[1], yc |-> c[2], d_major |-> Some(d[1]), d_minor |-> Some(d[2]),
      phi |-> Some(0)] :
         c \in Centers,
         d \in {p \in (1..MaxDiameter) \X (1..MaxDiameter) : p[1] >= p[2]}}
    \cup
    {[xc |-> c[1], yc |-> c[2], d_major |-> a, d_minor |-> None, phi |-> None] :
         c \in Centers, a \in Optional(1..MaxDiameter)}

\* diameters = kwargs.get("mask_diameters", 3)
DefaultMaskDiameters == 3

\* the crop option: False, True, or the list [v, h] of whole pixels
CropFalse == [kind |-> "bool", on |-> FALSE, v |-> 0, h |-> 0]
CropTrue == [kind |-> "bool", on |-> TRUE, v |-> 0, h |-> 0]
CropList(v, h) == [kind |-> "list", on |-> TRUE, v |-> v, h |-> h]

\* _crop_image_if_needed(o_image, xc_px, yc_px, d_major_px, d_minor_px, phi, crop, 1,
\* diameters)
crop_image_if_needed(o_image, e, crop, diameters) ==
    IF crop.kind = "list"
    THEN crop_image_to_rect(o_image, e.xc, e.yc, e.xc - crop.h, e.xc + crop.h,
                            e.yc - crop.v, e.yc + crop.v)
    ELSE IF crop.on
    THEN crop_image_to_integration_rect(o_image, e.xc, e.yc, e.d_major, e.d_minor, e.phi,
                                        diameters)
    ELSE [kind |-> "crop", alias |-> "self", xc |-> e.xc, yc |-> e.yc, img |-> o_image]

\* subtract_iso_background (background.py) of the image to display, of which the
\* model keeps the shape; None has no pixels to subtract from and is passed on
subtract_iso_background(im) ==
    IF im = None THEN None ELSE Some([v |-> im[1].v, h |-> im[1].h])

\* _draw_beam_overlays raises TypeError: d_major_px * diameters with d_major_px None;
\* np.cos(phi) in ellipse_arrays and np.sin(-phi) in rotate_points with phi None
overlaysRaise(d_major_px, d_minor_px, phi) == d_major_px = None \/ phi = None

\* the xc_px, yc_px that plot_image_and_fit returns: those _crop_image_if_needed gave
plotCenter(e, c) == <<c.xc, c.yc>>

\* plot_image_and_fit(o_image, crop=crop) with pixel_size None, e the estimate that
\* beam_size made of o_image
plot_image_and_fit(o_image, e, crop) ==
    LET c == crop_image_if_needed(o_image, e, crop, DefaultMaskDiameters)
        cropped == IF c.kind = "crop" THEN Some(c.img) ELSE None
        working_image == subtract_iso_background(cropped)
    IN  IF c.kind = "raise" THEN c
        ELSE IF working_image = None THEN Raise("AttributeError")
        ELSE IF overlaysRaise(e.d_major, e.d_minor, e.phi) THEN Raise("TypeError")
        ELSE [kind |-> "estimate", xc |-> plotCenter(e, c)[1], yc |-> plotCenter(e, c)[2],
              d_major |-> e.d_major, d_minor |-> e.d_minor, phi |-> e.phi]

\* an element of a float array: a number, or nan (what None becomes when stored)
Float64(x) == IF x = None THEN [nan |-> TRUE, val |-> 0] ELSE [nan |-> FALSE, val |-> x[1]]

\* plot_image_montage(images, crop=crop) from image i on, d_major and d_minor filled up
\* to i - 1; entry.image is the image and entry.estimate what beam_size makes of it
RECURSIVE montageLoop(_, _, _, _, _)
montageLoop(images, crop, i, d_major, d_minor) ==
    IF i > Len(images) THEN [kind |-> "montage", d_major |-> d_major, d_minor |-> d_minor]
    ELSE LET r == plot_image_and_fit(images[i].image, images[i].estimate, crop)
         IN  IF r.kind = "raise" THEN r
             ELSE montageLoop(images, crop, i + 1,
                              [d_major EXCEPT ![i] = Float64(r.d_major)],
                              [d_minor EXCEPT ![i] = Float64(r.d_minor)])

plot_image_montage(images, crop) ==
    LET zeros == [i \in 1..Len(images) |-> Float64(Some(0))]
    IN  montageLoop(images, crop, 1, zeros, zeros)

\* ------------------------------------------------------------------ one call of plot_image_and_fit() or plot_image_montage()
\* a montage shows 1..MaxImages images
MaxImages == 2

Crops == {CropFalse, CropTrue} \cup {CropList(v, h) : v \in 2..(MaxDim + 1), h \in 2..(MaxDim + 1)}

MontageEntries == {[image |-> TestImage(MaxDim, MaxDim, {}), estimate |-> e] : e \in beam_size}

InitDisplay ==
    /\ pc = "call"
    /\ ret = NoRet
    /\ \/ /\ op = "plot_image_and_fit"
          /\ image \in PlainImages
          /\ args \in [estimate : beam_size, crop : Crops]
       \/ /\ op = "plot_image_montage"
          /\ image = NoImage
          /\ \E n \in 1..MaxImages :
                args \in [images : [1..n -> MontageEntries], crop : Crops]

CallPlotImageAndFit ==
    /\ pc = "call"
    /\ op = "plot_image_and_fit"
    /\ pc' = "return"
    /\ ret' = plot_image_and_fit(image, args.estimate, args.crop)
    /\ UNCHANGED <<op, image, args>>

CallPlotImageMontage ==
    /\ pc = "call"
    /\ op = "plot_image_montage"
    /\ pc' = "return"
    /\ ret' = plot_image_montage(args.images, args.crop)
    /\ UNCHANGED <<op, image, args>>

NextDisplay == CallPlotImageAndFit \/ CallPlotImageMontage

SpecDisplay == InitDisplay /\ [][NextDisplay]_vars

\* ------------------------------------------------------------------ C17
PlotReturned == pc = "return" /\ op = "plot_image_and_fit"

\* C17: in plot_image_and_fit cropping only affects what is displayed: for the same
\* image and estimate, the tuple (xc, yc, d_major, d_minor, phi) returned with
\* crop=True or crop=[v, h] is the tuple returned with crop=False.
C17_CropOnlyAffectsDisplay ==
    (PlotReturned /\ ret.kind = "estimate")
        => ret = plot_image_and_fit(image, args.estimate, CropFalse)

\* ------------------------------------------------------------------ C18
MontageReturned == pc = "return" /\ op = "plot_image_montage"

\* the estimate has both diameters and the angle
Defined(e) == e.d_major # None /\ e.d_minor # None /\ e.phi # None

\* the display crop of image i of the montage gives the no-result sentinel
CropGivesSentinel(i) ==
    crop_image_if_needed(args.images[i].image, args.images[i].estimate, args.crop,
                         DefaultMaskDiameters).kind = "sentinel"

\* C18: when the display crop of an image gives the no-result sentinel of
\* crop_image_to_rect, plot_image_montage handles it for that image and goes on: no
\* exception escapes, and the two diameter arrays returned have one entry per image.
C18_MontageHandlesSentinel ==
    (/\ MontageReturned
     /\ \A i \in DOMAIN args.images : Defined(args.images[i].estimate)
     /\ \E i \in DOMAIN args.images : CropGivesSentinel(i))
        => /\ ret.kind = "montage"
           /\ Len(ret.d_major) = Len(args.images)
           /\ Len(ret.d_minor) = Len(args.images)

\* ------------------------------------------------------------------ C19
\* the estimate of a failed fit: d_minor and phi are None
Undefined(e) == e.d_minor = None /\ e.phi = None

\* C19: plot_image_and_fit and plot_image_montage tolerate an undefined estimate: when
\* beam_size returns d_minor and phi None, with d_major defined or None, the image is
\* processed without raising and the montage goes on to every remaining image (no
\* crop is asked for).
C19_ToleratesUndefinedEstimate ==
    /\ (PlotReturned /\ args.crop = CropFalse /\ Undefined(args.estimate))
           => ret.kind = "estimate"
    /\ (/\ MontageReturned
        /\ args.crop = CropFalse
        /\ \E i \in DOMAIN args.images : Undefined(args.images[i].estimate))
           => (ret.kind = "montage" /\ Len(ret.d_major) = Len(args.images))

\* ------------------------------------------------------------------ the beam estimator
\* beam_size(image, max_iter=max_iter) of analysis.py as the state machine of the
\* specification: pc is INITIAL, REFINING, CONVERGED or FAILED, ret.iter counts the
\* refinement iterations made, ret.estimate is the last iterate.  What the moments of
\* the image give is left open: any iterate, or a zero total weight.
MaxIter == 3

\* the iterates: diameters in whole pixels, d_major >= d_minor
Iterates ==
    {[d_major |-> Some(d[1]), d_minor |-> Some(d[2]), phi |-> Some(0)] :
         d \in {p \in (1..MaxDiameter) \X (1..MaxDiameter) : p[1] >= p[2]}}

\* the estimate of the FAILED state: d_minor and phi undefined
FailedEstimates == {[d_major |-> a, d_minor |-> None, phi |-> None] : a \in Optional(1..MaxDiameter)}

exhaustedNever(iter, max_iter) == FALSE

\* max_iter iterations are exhausted
exhausted(iter, max_iter) == iter >= max_iter

\* the convergence test: the new iterate is within the tolerance of the previous one
\* (at the model's resolution, equal to it)
withinTolerance(new, old) == new = old

\* what the estimator holds after a step
Estimator(iter, estimate, met, zero) ==
    [kind |-> "estimator", iter |-> iter, estimate |-> estimate, met |-> met, zero |-> zero]

InitEstimator ==
    /\ pc = "INITIAL"
    /\ op = "beam_size"
    /\ image = NoImage
    /\ args \in [max_iter : 0..MaxIter]
    /\ ret = NoRet

\* INITIAL: the moments of the whole background-subtracted image
EstimatorInitial ==
    /\ pc = "INITIAL"
    /\ op = "beam_size"
    /\ \/ \E e \in FailedEstimates :
             /\ pc' = "FAILED"
             /\ ret' = Estimator(0, e, FALSE, TRUE)
       \/ \E e \in Iterates :
             /\ pc' = IF exhausted(0, args.max_iter) THEN "CONVERGED" ELSE "REFINING"
             /\ ret' = Estimator(0, e, FALSE, FALSE)
    /\ UNCHANGED <<op, image, args>>

\* REFINING: the moments of the integration rectangle, then the convergence test
EstimatorRefine ==
    /\ pc = "REFINING"
    /\ op = "beam_size"
    /\ \/ \E e \in FailedEstimates :
             /\ pc' = "FAILED"
             /\ ret' = Estimator(ret.iter + 1, e, FALSE, TRUE)
       \/ \E e \in Iterates :
             LET met == withinTolerance(e, ret.estimate)
             IN  /\ pc' = IF met \/ exhausted(ret.iter + 1, args.max_iter)
                          THEN "CONVERGED" ELSE "REFINING"
                 /\ ret' = Estimator(ret.iter + 1, e, met, FALSE)
    /\ UNCHANGED <<op, image, args>>

NextEstimator == EstimatorInitial \/ EstimatorRefine

\* every call runs on: the estimator has no suspension points
SpecEstimator == InitEstimator /\ [][NextEstimator]_vars /\ WF_vars(NextEstimator)

\* ------------------------------------------------------------------ C20
Terminal == pc \in {"CONVERGED", "FAILED"}

\* C20: the beam estimator always terminates after at most max_iter refinement
\* iterations: from INITIAL it reaches CONVERGED or FAILED, and when max_iter is
\* exhausted without the tolerance being met (and the weight is not zero) the terminal
\* state is CONVERGED with the last iterate reported, never FAILED.
C20_EstimatorTerminates ==
    /\ [](op = "beam_size" /\ pc # "INITIAL" =>
             /\ ret.iter <= args.max_iter
             /\ (pc = "REFINING" => ret.iter < args.max_iter)
             /\ (ret.iter = args.max_iter /\ ~ret.zero =>
                     pc = "CONVERGED" /\ ret.estimate \in Iterates))
    /\ <>Terminal

\* the iterations were exhausted without the tolerance being met
C20_Witness ==
    /\ op = "beam_size"
    /\ pc = "CONVERGED"
    /\ args.max_iter > 0
    /\ ret.iter = args.max_iter
    /\ ~ret.met

\* ------------------------------------------------------------------ C21
\* C21: a failed fit is reported to the caller with the minor diameter and the angle
\* undefined, never as zero or NaN: for an image whose estimate has d_minor and phi
\* None, plot_image_and_fit returns d_minor = None and phi = None, and the d_minor
\* entry of that image in what plot_image_montage returns is neither NaN nor 0 (no
\* crop is asked for).
C21_FailedFitReportedUndefined ==
    /\ (PlotReturned /\ args.crop = CropFalse /\ Undefined(args.estimate))
           => (ret.kind = "estimate" /\ ret.d_minor = None /\ ret.phi = None)
    /\ (MontageReturned /\ args.crop = CropFalse)
           => \A i \in DOMAIN args.images :
                  Undefined(args.images[i].estimate)
                      => /\ ret.kind = "montage"
                         /\ ~ret.d_minor[i].nan
                         /\ ret.d_minor[i].val # 0

\* ------------------------------------------------------------------ C22
\* C22: crop_image_to_rect translates the center as it places the pixels: for every
\* crop returned, padded or not, the new center is (xc - int(xmin), yc - int(ymin)) and
\* every unmasked pixel (r, c) of the crop is the source pixel
\* (r + int(ymin), c + int(xmin)).
C22_CenterFollowsPixels ==
    (CropReturned /\ ret.kind = "crop") =>
        /\ ret.xc = args.xc_px - Px(int(args.xmin))
        /\ ret.yc = args.yc_px - Px(int(args.ymin))
        /\ \A q \in Positions(ret.img.v, ret.img.h) \ ret.img.mask :
              /\ SourceOf(q) \in Positions(image.v, image.h)
              /\ ret.img.data[q] = image.data[SourceOf(q)]

\* a padded crop that starts inside the image, to the right of its first column, and
\* above its first row
C22_Witness ==
    /\ CropReturned
    /\ ret.kind = "crop"
    /\ int(args.xmin) > 0
    /\ int(args.ymin) < 0
    /\ ret.xc < args.xc_px
    /\ ret.yc > args.yc_px
    /\ Positions(ret.img.v, ret.img.h) \ ret.img.mask # {}

\* the axis-aligned bounding box <<xmin, xmax, ymin, ymax>>, in half pixels, of the
\* integration rectangle of the call: half of mask_diameters * d pixels is
\* mask_diameters * d half pixels, and a quarter turn exchanges the two extents
BoundingBox ==
    LET hx == args.mask_diameters * (IF args.phi[1] = 0 THEN args.d_major[1] ELSE args.d_minor[1])
        hy == args.mask_diameters * (IF args.phi[1] = 0 THEN args.d_minor[1] ELSE args.d_major[1])
    IN  <<args.xc_px - hx, args.xc_px + hx, args.yc_px - hy, args.yc_px + hy>>

\* C23: when d_minor is defined, crop_image_to_integration_rect returns what
\* crop_image_to_rect returns for the axis-aligned bounding box of the rectangle of
\* mask_diameters * d_major by mask_diameters * d_minor rotated by phi about the
\* center: x within m * d_major / 2 and y within m * d_minor / 2 of the center for
\* phi = 0, the two extents exchanged for phi = +/- pi/2, the sentinel included.
C23_CropsToBoundingBox ==
    (IntegrationReturned /\ args.d_major # None /\ args.d_minor # None /\ args.phi # None) =>
        ret = crop_image_to_rect(image, args.xc_px, args.yc_px,
                                 BoundingBox[1], BoundingBox[2], BoundingBox[3], BoundingBox[4])

\* C24: crop_image_to_rect keeps the mask of its input: every pixel of the result
\* that comes from a masked pixel of the input is masked in the result, whether the
\* crop lies inside the image or is padded past an edge.
C24_CropKeepsInputMask ==
    (CropReturned /\ ret.kind = "crop") =>
        \A q \in Positions(ret.img.v, ret.img.h) :
            SourceOf(q) \in image.mask => q \in ret.img.mask

\* ------------------------------------------------------------------ the ends of line()
\* C25: for any two integer endpoints the sequence of line() starts at one of the
\* two endpoints and ends at the other, the endpoint with the smaller coordinate
\* along the axis of greatest extent first, so both endpoints are in the sequence.
C25_LineRunsBetweenEndpoints ==
    LineReturned =>
        LET n     == Len(ret.rr)
            first == <<ret.rr[1], ret.cc[1]>>
            last  == <<ret.rr[n], ret.cc[n]>>
            A     == <<args.r0, args.c0>>
            B     == <<args.r1, args.c1>>
            dr    == Abs(args.r1 - args.r0)
            dc    == Abs(args.c1 - args.c0)
        IN  /\ n >= 1 /\ Len(ret.cc) = n
            /\ (first = A /\ last = B) \/ (first = B /\ last = A)
            /\ \/ dr >= dc /\ first[1] <= last[1]
               \/ dc >= dr /\ first[2] <= last[2]
            /\ dr > dc => first[1] < last[1]
            /\ dc > dr => first[2] < last[2]

\* a steep line given bottom to top: the sequence starts at the second endpoint
C25_Witness ==
    /\ LineReturned
    /\ args.r0 - args.r1 = 3
    /\ Abs(args.c1 - args.c0) = 2
    /\ Len(ret.rr) = 4
    /\ <<ret.rr[1], ret.cc[1]>> = <<args.r1, args.c1>>
    /\ <<ret.rr[4], ret.cc[4]>> = <<args.r0, args.c0>>

====
